---- MODULE Spec2Model ----
(***************************************************************************)
(* Model of the Kysely dialect for Cloudflare D1 (src/src/index.ts):       *)
(* D1Driver, D1Connection and the remote D1Database handle they call.      *)
(*                                                                         *)
(* JavaScript values are tagged records, so that undefined, null, "",      *)
(* numbers and bigints stay distinct values.  An async method that awaits  *)
(* the remote store is two steps: the call up to the await and the         *)
(* continuation that runs when the awaited promise settles.                *)
(***************************************************************************)
EXTENDS Integers, Sequences, FiniteSets

VARIABLES
  config,   \* the D1DialectConfig object handed to the dialect and its driver
  conns,    \* the D1Connection objects created so far: each one's #config
  calls,    \* executeQuery calls suspended at their await, by call slot
  remote,   \* what the D1Database handle received for each suspended call
  iters,    \* the async generator objects streamQuery returned: their state
  last      \* the latest call event the caller observed, and its outcome

vars == <<config, conns, calls, remote, iters, last>>

-----------------------------------------------------------------------------
(* Bounds of the model *)

MaxParams == 2     \* longest parameter list of a compiled query
MaxRows == 2       \* longest results array of a remote response
MaxConns == 2      \* connections acquired in one behaviour
MaxPending == 2    \* executeQuery calls suspended at the same time
MaxIters == 1      \* generator objects obtained from streamQuery

-----------------------------------------------------------------------------
(* JavaScript values *)

Undefined == [t |-> "undefined"]
Null == [t |-> "null"]
Str(s) == [t |-> "string", v |-> s]
\* a number is the rational num/den; it is an integer iff den = 1
Num(n, d) == [t |-> "number", num |-> n, den |-> d]
Array(s) == [t |-> "array", items |-> s]

\* ToBoolean of the values a response's error field takes
Truthy(v) ==
  CASE v.t = "undefined" -> FALSE
    [] v.t = "null" -> FALSE
    [] v.t = "string" -> v.v # ""
    [] v.t = "number" -> v.num # 0
    [] OTHER -> TRUE

NewError(name, message) == [name |-> name, message |-> message]

\* the three states of a promise, and the plain return of a synchronous call
Pending == [status |-> "pending"]
Fulfilled(v) == [status |-> "fulfilled", value |-> v]
Rejected(e) == [status |-> "rejected", reason |-> e]
Returned(v) == [status |-> "returned", value |-> v]

SeqsUpTo(S, n) == UNION {[1..k -> S] : k \in 0..n}

-----------------------------------------------------------------------------
(* Inputs: compiled queries, and the responses of the remote store *)

Databases == {"DB", "DB_PREVIEW"}
SqlTexts == {"SELECT * FROM t WHERE x = ?", "INSERT INTO t (x) VALUES (?)"}
ParamValues == {5, 6}

CompiledQueries == [sql : SqlTexts, parameters : SeqsUpTo(ParamValues, MaxParams)]

ErrorValues == {Undefined, Null, Str(""), Str("no such table: t")}
IdValues == {Undefined, Null, Num(0, 1), Num(7, 1), Num(3, 2)}
RowCounts == 0..1
\* a row without an "id" column reads as id = undefined
RowValues == [id : IdValues, x : {5}]
ResultsValues == {Array(s) : s \in SeqsUpTo(RowValues, MaxRows)} \cup {Undefined}

Responses ==
  [error : ErrorValues,
   meta : [rows_read : RowCounts, rows_written : RowCounts],
   results : ResultsValues]

\* errors the promise returned by all() is rejected with, when it rejects
RemoteFailures == {NewError("Error", "D1_ERROR: network connection lost")}

-----------------------------------------------------------------------------
(* D1Connection.executeQuery *)

\* bind receives only the first parameter
RemoteCalls_firstParamOnly(compiledQuery) ==
  << [method |-> "prepare", args |-> <<compiledQuery.sql>>],
     [method |-> "bind", args |-> IF compiledQuery.parameters = <<>> THEN <<>>
                                  ELSE <<compiledQuery.parameters[1]>>],
     [method |-> "all", args |-> <<>>] >>

\* prepare(sql).bind(...parameters).all() as the remote handle receives it
RemoteCalls(compiledQuery) ==
  << [method |-> "prepare", args |-> <<compiledQuery.sql>>],
     [method |-> "bind", args |-> compiledQuery.parameters],
     [method |-> "all", args |-> <<>>] >>

\* the error carries a fixed text instead of the remote one
ErrorOf_generic(result) == NewError("Error", "D1 query failed")

\* new Error(result.error)
ErrorOf(result) == NewError("Error", result.error.v)

\* only the rows written are counted
NumAffectedRows_written(result) == result.meta.rows_written

NumAffectedRows(result) == result.meta.rows_read + result.meta.rows_written

\* the first row is taken instead of the last
LastRow_first(result) ==
  LET items == result.results.items
  IN  IF Len(items) = 0 THEN Undefined ELSE items[1]

\* result.results[result.results.length - 1]; an index out of range reads undefined
LastRow(result) ==
  LET items == result.results.items
  IN  IF Len(items) = 0 THEN Undefined ELSE items[Len(items)]

\* lastRow?.id
OptionalId(lastRow) == IF lastRow = Undefined \/ lastRow = Null THEN Undefined ELSE lastRow.id

\* BigInt(v) of a number: an integer converts, any other number is a RangeError
IsInteger(v) == v.den = 1
BigInt(v) == [t |-> "bigint", v |-> v.num]

\* only the row the insert id is read from is returned
RowsOf_lastOnly(result) ==
  LET items == result.results.items
  IN  IF Len(items) = 0 THEN <<>> ELSE <<items[Len(items)]>>

\* (result?.results as O[]) || []
RowsOf(result) == IF Truthy(result.results) THEN result.results.items ELSE <<>>

\* the rest of executeQuery once `result` is known: what its promise settles to
QueryResultOf(result) ==
  IF Truthy(result.error)
  THEN Rejected(ErrorOf(result))
  ELSE IF result.results = Undefined
  THEN Rejected(NewError("TypeError", "Cannot read properties of undefined (reading 'length')"))
  ELSE
    LET numAffectedRows == NumAffectedRows(result)
        id == OptionalId(LastRow(result))
    IN  IF id # Undefined /\ id # Null /\ ~IsInteger(id)
        THEN Rejected(NewError("RangeError", "The number cannot be converted to a BigInt because it is not an integer"))
        ELSE Fulfilled(
               [insertId |-> IF id = Undefined \/ id = Null THEN Undefined ELSE BigInt(id),
                rows |-> RowsOf(result),
                numAffectedRows |-> numAffectedRows,
                numUpdatedOrDeletedRows |-> numAffectedRows])

\* an event the caller observes
Event(op, conn, call, response, outcome, executions) ==
  [op |-> op, conn |-> conn, call |-> call, response |-> response,
   outcome |-> outcome, executions |-> executions]

FreeSlot == CHOOSE k \in (1..MaxPending) \ DOMAIN calls : TRUE

NumberOfAll(trace) == Cardinality({i \in DOMAIN trace : trace[i].method = "all"})

\* the call, up to the await of all()
D1Connection_executeQuery(c, compiledQuery) ==
  /\ c \in DOMAIN conns
  /\ DOMAIN calls # 1..MaxPending
  /\ LET k == FreeSlot IN
       /\ calls' = [j \in DOMAIN calls \cup {k} |->
                      IF j = k THEN [conn |-> c, compiledQuery |-> compiledQuery]
                      ELSE calls[j]]
       /\ remote' = [j \in DOMAIN remote \cup {k} |->
                      IF j = k THEN [database |-> conns[c].database,
                                     trace |-> RemoteCalls(compiledQuery)]
                      ELSE remote[j]]
       /\ last' = Event("D1Connection.executeQuery", c, k, Undefined, Pending, 0)
  /\ UNCHANGED <<config, conns, iters>>

\* one statement is shared: a response ends every suspended call
D1Connection_executeQuery_resume_shared(k, result) ==
  /\ k \in DOMAIN calls
  /\ calls' = <<>>
  /\ remote' = <<>>
  /\ last' = Event("D1Connection.executeQuery", calls[k].conn, k, result,
                   QueryResultOf(result), NumberOfAll(remote[k].trace))
  /\ UNCHANGED <<config, conns, iters>>

\* a response that reports an error is answered by sending the query again
D1Connection_executeQuery_resume_retry(k, result) ==
  /\ k \in DOMAIN calls
  /\ IF Truthy(result.error)
     THEN /\ calls' = calls
          /\ remote' = [remote EXCEPT ![k].trace = @ \o RemoteCalls(calls[k].compiledQuery)]
          /\ last' = Event("D1Connection.executeQuery", calls[k].conn, k, Undefined, Pending, 0)
     ELSE /\ calls' = [j \in DOMAIN calls \ {k} |-> calls[j]]
          /\ remote' = [j \in DOMAIN remote \ {k} |-> remote[j]]
          /\ last' = Event("D1Connection.executeQuery", calls[k].conn, k, result,
                           QueryResultOf(result), NumberOfAll(remote[k].trace))
  /\ UNCHANGED <<config, conns, iters>>

\* the promise of all() is fulfilled with `result`; executeQuery resumes
D1Connection_executeQuery_resume(k, result) ==
  /\ k \in DOMAIN calls
  /\ calls' = [j \in DOMAIN calls \ {k} |-> calls[j]]
  /\ remote' = [j \in DOMAIN remote \ {k} |-> remote[j]]
  /\ last' = Event("D1Connection.executeQuery", calls[k].conn, k, result,
                   QueryResultOf(result), NumberOfAll(remote[k].trace))
  /\ UNCHANGED <<config, conns, iters>>

\* the promise of all() is rejected; the await rethrows
D1Connection_executeQuery_throw(k, e) ==
  /\ k \in DOMAIN calls
  /\ calls' = [j \in DOMAIN calls \ {k} |-> calls[j]]
  /\ remote' = [j \in DOMAIN remote \ {k} |-> remote[j]]
  /\ last' = Event("D1Connection.executeQuery", calls[k].conn, k, Undefined,
                   Rejected(e), NumberOfAll(remote[k].trace))
  /\ UNCHANGED <<config, conns, iters>>

-----------------------------------------------------------------------------
(* D1Connection: transactions and streaming *)

TransactionsNotSupported == NewError("Error", "Transactions are not supported yet.")
StreamingNotSupported == NewError("Error", "D1 Driver does not support streaming")

\* what the promise of each transaction method settles to
beginTransaction(c) == Rejected(TransactionsNotSupported)

\* commit accepted as a no-op
commitTransaction_noop(c) == Fulfilled(Undefined)

commitTransaction(c) == Rejected(TransactionsNotSupported)
rollbackTransaction(c) == Rejected(TransactionsNotSupported)

\* the generator body returns without throwing
streamQuery_body_empty == Fulfilled([done |-> TRUE, value |-> Undefined])

\* what running the body of streamQuery settles the first next() to
streamQuery_body == Rejected(StreamingNotSupported)

Observe(op, c, outcome) ==
  /\ last' = Event(op, c, 0, Undefined, outcome, 0)
  /\ UNCHANGED <<config, conns, calls, remote, iters>>

D1Connection_beginTransaction(c) ==
  /\ c \in DOMAIN conns
  /\ Observe("D1Connection.beginTransaction", c, beginTransaction(c))

D1Connection_commitTransaction(c) ==
  /\ c \in DOMAIN conns
  /\ Observe("D1Connection.commitTransaction", c, commitTransaction(c))

D1Connection_rollbackTransaction(c) ==
  /\ c \in DOMAIN conns
  /\ Observe("D1Connection.rollbackTransaction", c, rollbackTransaction(c))

\* calling an async generator function runs none of its body: it returns the
\* generator object, suspended at its start
D1Connection_streamQuery(c, compiledQuery, chunkSize) ==
  /\ c \in DOMAIN conns
  /\ Len(iters) < MaxIters
  /\ iters' = Append(iters, "suspendedStart")
  /\ last' = Event("D1Connection.streamQuery", c, 0, Undefined,
                   Returned([t |-> "AsyncGenerator", ref |-> Len(iters) + 1]), 0)
  /\ UNCHANGED <<config, conns, calls, remote>>

\* next() on a generator: the first one runs the body, which throws; a
\* completed generator answers done
AsyncGenerator_next(i) ==
  /\ i \in DOMAIN iters
  /\ iters' = [iters EXCEPT ![i] = "completed"]
  /\ last' = Event("AsyncGenerator.next", 0, 0, Undefined,
                   IF iters[i] = "suspendedStart"
                   THEN streamQuery_body
                   ELSE Fulfilled([done |-> TRUE, value |-> Undefined]), 0)
  /\ UNCHANGED <<config, conns, calls, remote>>

\* return() on a generator completes it without running the body
AsyncGenerator_return(i) ==
  /\ i \in DOMAIN iters
  /\ iters' = [iters EXCEPT ![i] = "completed"]
  /\ last' = Event("AsyncGenerator.return", 0, 0, Undefined,
                   Fulfilled([done |-> TRUE, value |-> Undefined]), 0)
  /\ UNCHANGED <<config, conns, calls, remote>>

-----------------------------------------------------------------------------
(* D1Driver *)

D1Driver_init ==
  /\ last' = Event("D1Driver.init", 0, 0, Undefined, Fulfilled(Undefined), 0)
  /\ UNCHANGED <<config, conns, calls, remote, iters>>

\* the connection gets a configuration of its own
D1Connection_new_default(cfg) == [database |-> "DB_PREVIEW"]

\* new D1Connection(this.#config)
D1Connection_new(cfg) == cfg

D1Driver_acquireConnection ==
  /\ Len(conns) < MaxConns
  /\ conns' = Append(conns, D1Connection_new(config))
  /\ last' = Event("D1Driver.acquireConnection", Len(conns) + 1, 0, Undefined,
                   Fulfilled([t |-> "D1Connection", ref |-> Len(conns) + 1]), 0)
  /\ UNCHANGED <<config, calls, remote, iters>>

D1Driver_beginTransaction(c) ==
  /\ c \in DOMAIN conns
  /\ Observe("D1Driver.beginTransaction", c, beginTransaction(c))

D1Driver_commitTransaction(c) ==
  /\ c \in DOMAIN conns
  /\ Observe("D1Driver.commitTransaction", c, commitTransaction(c))

D1Driver_rollbackTransaction(c) ==
  /\ c \in DOMAIN conns
  /\ Observe("D1Driver.rollbackTransaction", c, rollbackTransaction(c))

D1Driver_releaseConnection(c) ==
  /\ c \in DOMAIN conns
  /\ Observe("D1Driver.releaseConnection", c, Fulfilled(Undefined))

D1Driver_destroy ==
  /\ last' = Event("D1Driver.destroy", 0, 0, Undefined, Fulfilled(Undefined), 0)
  /\ UNCHANGED <<config, conns, calls, remote, iters>>

-----------------------------------------------------------------------------
(* Specifications *)

\* new D1Dialect(config).createDriver(): nothing called yet
Init ==
  /\ config \in [database : Databases]
  /\ conns = <<>>
  /\ calls = <<>>
  /\ remote = <<>>
  /\ iters = <<>>
  /\ last = Event("D1Dialect.createDriver", 0, 0, Undefined, Returned(Undefined), 0)

Idle == calls = <<>>

\* a caller that awaits each executeQuery before it makes its next call
Next ==
  \/ Idle /\ D1Driver_init
  \/ Idle /\ D1Driver_acquireConnection
  \/ Idle /\ \E c \in 1..MaxConns : D1Driver_releaseConnection(c)
  \/ Idle /\ D1Driver_destroy
  \/ Idle /\ \E c \in 1..MaxConns : D1Driver_beginTransaction(c)
  \/ Idle /\ \E c \in 1..MaxConns : D1Driver_commitTransaction(c)
  \/ Idle /\ \E c \in 1..MaxConns : D1Driver_rollbackTransaction(c)
  \/ Idle /\ \E c \in 1..MaxConns : D1Connection_beginTransaction(c)
  \/ Idle /\ \E c \in 1..MaxConns : D1Connection_commitTransaction(c)
  \/ Idle /\ \E c \in 1..MaxConns : D1Connection_rollbackTransaction(c)
  \/ Idle /\ \E c \in 1..MaxConns, q \in CompiledQueries : D1Connection_executeQuery(c, q)
  \/ \E k \in 1..MaxPending, r \in Responses : D1Connection_executeQuery_resume(k, r)
  \/ \E k \in 1..MaxPending, e \in RemoteFailures : D1Connection_executeQuery_throw(k, e)

Spec == Init /\ [][Next]_vars

\* Concurrent callers: any call is made while others are suspended, streams
\* are opened and advanced, and the responses arrive in any order.  The
\* queries and responses are a few representative ones.
ConcQueries ==
  {[sql |-> "SELECT * FROM t WHERE x = ?", parameters |-> <<5>>],
   [sql |-> "INSERT INTO t (x) VALUES (?)", parameters |-> <<6>>]}

ConcResponses ==
  {r \in Responses :
     /\ r.error \in {Undefined, Str("no such table: t")}
     /\ r.meta = [rows_read |-> 1, rows_written |-> 0]
     /\ r.results \in {Array(<<>>), Array(<<[id |-> Num(7, 1), x |-> 5]>>)}}

ConcNext ==
  \/ D1Driver_init
  \/ D1Driver_acquireConnection
  \/ \E c \in 1..MaxConns : D1Driver_releaseConnection(c)
  \/ D1Driver_destroy
  \/ \E c \in 1..MaxConns : D1Driver_beginTransaction(c)
  \/ \E c \in 1..MaxConns : D1Driver_commitTransaction(c)
  \/ \E c \in 1..MaxConns : D1Driver_rollbackTransaction(c)
  \/ \E c \in 1..MaxConns : D1Connection_beginTransaction(c)
  \/ \E c \in 1..MaxConns : D1Connection_commitTransaction(c)
  \/ \E c \in 1..MaxConns : D1Connection_rollbackTransaction(c)
  \/ \E c \in 1..MaxConns, q \in ConcQueries, n \in {1, 100} :
       D1Connection_streamQuery(c, q, n)
  \/ \E i \in 1..MaxIters : AsyncGenerator_next(i)
  \/ \E i \in 1..MaxIters : AsyncGenerator_return(i)
  \/ \E c \in 1..MaxConns, q \in ConcQueries : D1Connection_executeQuery(c, q)
  \/ \E k \in 1..MaxPending, r \in ConcResponses : D1Connection_executeQuery_resume(k, r)
  \/ \E k \in 1..MaxPending, e \in RemoteFailures : D1Connection_executeQuery_throw(k, e)

ConcSpec == Init /\ [][ConcNext]_vars

-----------------------------------------------------------------------------
(* Properties *)

ExecuteQueryOp == "D1Connection.executeQuery"
TransactionOps ==
  {"D1Driver.beginTransaction", "D1Driver.commitTransaction", "D1Driver.rollbackTransaction",
   "D1Connection.beginTransaction", "D1Connection.commitTransaction",
   "D1Connection.rollbackTransaction"}
LifecycleOps ==
  {"D1Driver.init", "D1Driver.acquireConnection", "D1Driver.releaseConnection",
   "D1Driver.destroy"}
StreamOps == {"D1Connection.streamQuery", "AsyncGenerator.next", "AsyncGenerator.return"}

\* the latest event is an executeQuery whose promise has settled
Settled == last.op = ExecuteQueryOp /\ last.outcome.status # "pending"
\* ... after the remote store answered with a response object
Answered == Settled /\ last.response # Undefined
\* ... and executeQuery returned a query result
Succeeded == Answered /\ last.outcome.status = "fulfilled"

ErrorFieldSet(r) == r.error.t = "string"
ErrorFieldNonEmpty(r) == r.error.t = "string" /\ r.error.v # ""

\* C1: for every executeQuery suspended at its await, the remote handle of the
\* configuration received prepare(S), then bind with exactly the query's
\* parameters p1..pN in order (none added, dropped or reordered, N = 0
\* included), then all().
C1_ParametersForwarded ==
  \A k \in DOMAIN calls :
    LET q == calls[k].compiledQuery
        t == remote[k].trace
    IN  /\ remote[k].database = config.database
        /\ Len(t) = 3
        /\ t[1] = [method |-> "prepare", args |-> <<q.sql>>]
        /\ t[2].method = "bind"
        /\ Len(t[2].args) = Len(q.parameters)
        /\ \A i \in 1..Len(q.parameters) : t[2].args[i] = q.parameters[i]
        /\ t[3] = [method |-> "all", args |-> <<>>]

C1_Witness ==
  \E k \in DOMAIN calls :
    /\ calls[k].compiledQuery.parameters = <<6, 5>>
    /\ remote[k].trace[2].args = <<6, 5>>

\* a response of the shape the remote store documents: results is an array,
\* and the ids of its rows are integers where present
Conforming(r) ==
  /\ r.results.t = "array"
  /\ \A i \in DOMAIN r.results.items :
       r.results.items[i].id.t = "number" => r.results.items[i].id.den = 1

\* C2 as stated, on the responses the remote store documents: whenever the
\* response's error field is set, to any string at all, executeQuery fails
\* with exactly that string as its message.
C2_AnyErrorValueFails ==
  (Answered /\ Conforming(last.response) /\ ErrorFieldSet(last.response)) =>
    /\ last.outcome.status = "rejected"
    /\ last.outcome.reason.message = last.response.error.v

\* C2 amended: whenever the response's error field is a non-empty string,
\* executeQuery fails with an Error whose message is exactly that string,
\* whatever meta and results the response carries.
C2_NonEmptyErrorFails ==
  (Answered /\ ErrorFieldNonEmpty(last.response)) =>
    /\ last.outcome.status = "rejected"
    /\ last.outcome.reason = [name |-> "Error", message |-> last.response.error.v]

C2_Witness ==
  /\ Answered
  /\ last.response.error = Str("no such table: t")
  /\ last.response.results = Array(<<[id |-> Num(7, 1), x |-> 5]>>)
  /\ last.outcome.status = "rejected"

\* C3: for a successful executeQuery, insertId is the bigint of the "id" of
\* the last row of results when that id is present and non-null, and is
\* absent in every other case (no rows, last row without id, null id, id only
\* on an earlier row).
C3_InsertIdFromLastRow ==
  Succeeded =>
    LET items == last.response.results.items
        n == Len(items)
    IN  IF n > 0 /\ items[n].id.t = "number"
        THEN /\ items[n].id.den = 1
             /\ last.outcome.value.insertId = [t |-> "bigint", v |-> items[n].id.num]
        ELSE last.outcome.value.insertId = Undefined

\* the example of the specification: results [{id: 7, x: 5}] gives 7n
C3_Witness ==
  /\ Succeeded
  /\ last.response.results = Array(<<[id |-> Num(7, 1), x |-> 5]>>)
  /\ last.response.meta = [rows_read |-> 1, rows_written |-> 0]
  /\ last.outcome.value.insertId = [t |-> "bigint", v |-> 7]

\* C4: for a successful executeQuery, numAffectedRows and its alias
\* numUpdatedOrDeletedRows equal rows_read + rows_written of the response's
\* meta, whatever the rows are, also when there are none.
C4_AffectedRowsIsReadPlusWritten ==
  Succeeded =>
    /\ last.outcome.value.numAffectedRows =
         last.response.meta.rows_read + last.response.meta.rows_written
    /\ last.outcome.value.numUpdatedOrDeletedRows =
         last.response.meta.rows_read + last.response.meta.rows_written

C4_Witness ==
  /\ Succeeded
  /\ last.response.results = Array(<<>>)
  /\ last.response.meta = [rows_read |-> 1, rows_written |-> 1]
  /\ last.outcome.value.numAffectedRows = 2

\* C5: in every reachable state, a beginTransaction, commitTransaction or
\* rollbackTransaction call, on the connection or through the driver, has
\* failed with the error 'Transactions are not supported yet.'.
C5_TransactionsAlwaysFail ==
  last.op \in TransactionOps =>
    last.outcome =
      [status |-> "rejected",
       reason |-> [name |-> "Error", message |-> "Transactions are not supported yet."]]

C5_Witness ==
  /\ last.op = "D1Driver.commitTransaction"
  /\ last.conn = 2
  /\ last.outcome.status = "rejected"

\* C6 as stated: the streamQuery call itself signals the unsupported-streaming
\* error.
C6_CallItselfFails ==
  last.op = "D1Connection.streamQuery" =>
    /\ last.outcome.status = "rejected"
    /\ last.outcome.reason.message = "D1 Driver does not support streaming"

\* C6 amended: the streamQuery call returns an async iterator without failing;
\* the first next() on that iterator fails with the unsupported-streaming
\* error; no next() or return() ever delivers a result chunk; and neither the
\* call nor advancing the iterator makes a remote call.
C6_StreamFailsOnFirstNext ==
  [][ (last'.op \in StreamOps /\ (last' # last \/ iters' # iters)) =>
        /\ remote' = remote
        /\ calls' = calls
        /\ (last'.op = "D1Connection.streamQuery" =>
              /\ last'.outcome.status = "returned"
              /\ iters' = Append(iters, "suspendedStart"))
        /\ (last'.op # "D1Connection.streamQuery" =>
              /\ last'.outcome.status \in {"rejected", "fulfilled"}
              /\ (last'.outcome.status = "fulfilled" =>
                    last'.outcome.value = [done |-> TRUE, value |-> Undefined])
              /\ (last'.outcome.status = "rejected" =>
                    last'.outcome.reason =
                      [name |-> "Error", message |-> "D1 Driver does not support streaming"]))
        /\ (last'.op = "AsyncGenerator.next" =>
              \A i \in DOMAIN iters :
                (iters[i] = "suspendedStart" /\ iters'[i] # iters[i]) =>
                  last'.outcome.status = "rejected")
    ]_vars

C6_Witness ==
  /\ last.op = "AsyncGenerator.next"
  /\ last.outcome.status = "rejected"
  /\ \E i \in DOMAIN iters : iters[i] = "completed"

\* C7: init, acquireConnection, releaseConnection and destroy always succeed
\* and leave the remote store untouched (no prepare/bind/all), also right
\* after one another; acquireConnection adds one new connection holding the
\* driver's configuration, and the others add none.
C7_LifecycleNeverTouchesRemote ==
  [][ (last'.op \in LifecycleOps /\ (last' # last \/ conns' # conns)) =>
        /\ remote' = remote
        /\ calls' = calls
        /\ config' = config
        /\ last'.outcome.status = "fulfilled"
        /\ IF last'.op = "D1Driver.acquireConnection"
           THEN conns' = Append(conns, config)
           ELSE conns' = conns
    ]_vars

\* releaseConnection right after the acquireConnection of a second
\* connection, while a query of the first is suspended
C7_Witness ==
  /\ last.op = "D1Driver.releaseConnection"
  /\ last.conn = 2
  /\ last.outcome.status = "fulfilled"
  /\ \E k \in DOMAIN calls : calls[k].conn = 1

\* C8: for a successful executeQuery, rows is the results sequence of the
\* response, same rows in the same order; and a response without error whose
\* results are empty makes executeQuery succeed with no rows.
C8_RowsAreTheResults ==
  /\ Succeeded => last.outcome.value.rows = last.response.results.items
  /\ (Answered /\ ~ErrorFieldNonEmpty(last.response)
        /\ last.response.results = Array(<<>>)) =>
       /\ last.outcome.status = "fulfilled"
       /\ last.outcome.value.rows = <<>>

C8_Witness ==
  /\ Succeeded
  /\ last.outcome.value.rows = <<[id |-> Num(7, 1), x |-> 5], [id |-> Null, x |-> 5]>>

\* C9: under any interleaving of executeQuery calls on several connections,
\* no step writes the configuration or a connection; a step leaves every
\* call it does not complete suspended as it was, with its remote request; a
\* step completes at most one call, and the outcome it reports is that call's
\* own (its connection, its response); a new call's request is built from its
\* own query and connection.
C9_CallsAreIndependent ==
  [][ /\ config' = config
      /\ \A c \in DOMAIN conns : c \in DOMAIN conns' /\ conns'[c] = conns[c]
      /\ Cardinality(DOMAIN calls \ DOMAIN calls') <= 1
      /\ \A k \in DOMAIN calls \cap DOMAIN calls' :
           calls'[k] = calls[k] /\ remote'[k] = remote[k]
      /\ \A k \in DOMAIN calls \ DOMAIN calls' :
           /\ last'.op = ExecuteQueryOp
           /\ last'.call = k
           /\ last'.conn = calls[k].conn
           /\ last'.outcome.status \in {"fulfilled", "rejected"}
           /\ (last'.response # Undefined =>
                 /\ (last'.outcome.status = "rejected") = ErrorFieldNonEmpty(last'.response)
                 /\ (last'.outcome.status = "fulfilled" =>
                       last'.outcome.value.rows = last'.response.results.items))
      /\ \A k \in DOMAIN calls' \ DOMAIN calls :
           /\ remote'[k].database = conns[calls'[k].conn].database
           /\ remote'[k].trace[1].args = <<calls'[k].compiledQuery.sql>>
           /\ remote'[k].trace[2].args = calls'[k].compiledQuery.parameters
    ]_vars

\* the later call, on another connection, is answered first
C9_Witness ==
  /\ 1 \in DOMAIN calls
  /\ last.op = ExecuteQueryOp
  /\ last.call = 2
  /\ last.outcome.status = "fulfilled"
  /\ last.conn # calls[1].conn

\* C10 as stated: an executeQuery ran one remote execution and never returns
\* a query result for a response whose error field is set.
C10_NoResultWhenErrorSet ==
  Answered =>
    /\ last.executions = 1
    /\ (ErrorFieldSet(last.response) => last.outcome.status # "fulfilled")

\* C10 amended: every executeQuery, suspended or settled, successful or not,
\* has issued exactly one prepare/bind/all on the remote store; a settled call
\* is no longer outstanding there (nothing is sent again); and executeQuery
\* never returns a query result for a response whose error field is a
\* non-empty string.
C10_OneExecutionNoRetry ==
  /\ DOMAIN remote = DOMAIN calls
  /\ \A k \in DOMAIN remote :
       Len(SelectSeq(remote[k].trace, LAMBDA m : m.method = "all")) = 1
  /\ Settled =>
       /\ last.executions = 1
       /\ last.call \notin DOMAIN remote
  /\ (Answered /\ ErrorFieldNonEmpty(last.response)) => last.outcome.status = "rejected"
  /\ (Settled /\ last.response = Undefined) => last.outcome.status = "rejected"

C10_Witness ==
  /\ Answered
  /\ last.response.error = Str("no such table: t")
  /\ last.response.results = Array(<<>>)
  /\ last.executions = 1
  /\ remote = <<>>

====
